---------------------------- MODULE Spec2Model ----------------------------
(***************************************************************************)
(* A model of datashape/coretypes.py: the Type registry, the Mono type     *)
(* algebra (constructors, equality, hashing, parameters) and the algebra   *)
(* utilities (sigform, subarray, free).                                    *)
(*                                                                         *)
(* Python values are records tagged by `kind`.  A Mono instance carries    *)
(* an `id` (its object identity), its `parameters` tuple and the           *)
(* attributes its constructor sets.  Raw Python values that occur as       *)
(* attributes or parameters are wrapped: PyInt, PyStr, PySym, PyTuple,     *)
(* None.  A raised exception is the value Raise(exc).                      *)
(***************************************************************************)
EXTENDS Integers, Sequences, FiniteSets, TLC

VARIABLES
    pyver,      \* the interpreter's major version (2 or 3), fixed at start
    registry,   \* Type._registry: a dict from name to registered object
    last,       \* the last registry operation: its arguments, result, and the registry before it
    pc,         \* per thread: where it stands inside Type.register
    targ,       \* per thread: the (name, type) arguments of its register call
    calls,      \* per thread: how many register calls it has started
    call,       \* the last algebra operation applied and its inputs
    ret         \* what that operation returned (a value, or Raise(exc))

vars == <<pyver, registry, last, pc, targ, calls, call, ret>>

----------------------------------------------------------------------------
(* Bounds of the model *)

MaxCalls == 2
MaxFixed == 1
MaxDims == 3
MaxParams == 3
MaxLeading == 4
MaxExtent == 5
MaxRank == 2

----------------------------------------------------------------------------
(* Raw Python values *)

None == [kind |-> "NoneType"]

PyInt(i) == [kind |-> "int", int |-> i]

PyStr(s) == [kind |-> "str", str |-> s]

\* A str whose characters matter (a TypeVar symbol): the sequence of its characters.
PySym(chars) == [kind |-> "str", chars |-> chars]

PyTuple(items) == [kind |-> "tuple", items |-> items]

PyList(items) == [kind |-> "list", items |-> items]

PyClass(n) == [kind |-> "type", clsname |-> n]

Raise(exc) == [kind |-> "raise", exc |-> exc]

IsRaise(v) == v.kind = "raise"

\* Python truthiness of the raw values used as a DataShape name.
Truthy(v) ==
    CASE v.kind = "NoneType" -> FALSE
      [] v.kind = "str" /\ "str" \in DOMAIN v -> v.str # ""
      [] v.kind = "str" /\ "chars" \in DOMAIN v -> v.chars # <<>>
      [] OTHER -> TRUE

----------------------------------------------------------------------------
(* Classes of unit types, and the class hierarchy *)

DIMENSION == 1

MEASURE == 2

\* The variants whose class body sets `cls`, and the value it sets.
ClsAttr ==
    [k \in {"IntegerConstant", "Date", "Time", "DateTime", "Units", "Bytes",
            "String", "CType", "Fixed", "Var", "Record", "Tuple", "JSON"} |->
        CASE k = "IntegerConstant" -> None
          [] k \in {"Fixed", "Var"} -> PyInt(DIMENSION)
          [] OTHER -> PyInt(MEASURE)]

\* getattr(x, 'cls', default)
getattr_cls(x, default) ==
    IF x.kind \in DOMAIN ClsAttr THEN ClsAttr[x.kind] ELSE PyInt(default)

\* The subclasses of Unit (isinstance(x, Unit)).
UnitKinds ==
    {"Null", "IntegerConstant", "StringConstant", "Date", "Time", "DateTime",
     "Units", "Bytes", "String", "CType", "Fixed", "Var", "TypeVar"}

\* The subclasses of Mono (isinstance(x, Mono)).
MonoKinds ==
    UnitKinds \cup {"Ellipsis", "DataShape", "Option", "Implements", "Function",
                    "Record", "Tuple", "JSON"}

isinstance_Mono(x) == x.kind \in MonoKinds

isinstance_Unit(x) == x.kind \in UnitKinds

----------------------------------------------------------------------------
(* Type: the registry *)

\* name in cls._registry
InRegistry(reg, name) == name \in DOMAIN reg

\* cls._registry[name] = type
SetItem(reg, name, type) ==
    [n \in DOMAIN reg \cup {name} |-> IF n = name THEN type ELSE reg[n]]

\* Type.register without the membership test: the store always happens.
Type_register_clobber(reg, name, type) ==
    [ret |-> None, reg |-> SetItem(reg, name, type)]

\* Type.register(name, type): the result and the registry after the call.
Type_register(reg, name, type) ==
    IF InRegistry(reg, name)
    THEN [ret |-> Raise("TypeError"), reg |-> reg]
    ELSE [ret |-> None, reg |-> SetItem(reg, name, type)]

\* Type.lookup_type(name)
Type_lookup_type(reg, name) ==
    IF InRegistry(reg, name) THEN reg[name] ELSE Raise("KeyError")

----------------------------------------------------------------------------
(* Constructors *)

\* CType.__init__(name, itemsize, alignment): the object and the registry after.
CType_init(reg, id, name, itemsize, alignment) ==
    LET self == [kind |-> "CType", id |-> id, name |-> PyStr(name),
                 itemsize |-> PyInt(itemsize), alignment |-> PyInt(alignment),
                 parameters |-> <<PyStr(name)>>]
        r == Type_register(reg, name, self)
    IN  IF IsRaise(r.ret) THEN [ret |-> r.ret, reg |-> r.reg]
        ELSE [ret |-> self, reg |-> r.reg]

\* The checks of DataShape.__init__ demanding the 2 or more parameters its
\* error message names.
DataShape_check_two(parameters) ==
    IF Len(parameters) > 1
    THEN IF getattr_cls(parameters[Len(parameters)], MEASURE) # PyInt(MEASURE)
         THEN Raise("TypeError")
         ELSE IF \E i \in 1..(Len(parameters) - 1) :
                    getattr_cls(parameters[i], DIMENSION) # PyInt(DIMENSION)
              THEN Raise("TypeError")
              ELSE None
    ELSE Raise("ValueError")

\* The checks of DataShape.__init__ on its positional parameters.
DataShape_check(parameters) ==
    IF Len(parameters) > 0
    THEN IF getattr_cls(parameters[Len(parameters)], MEASURE) # PyInt(MEASURE)
         THEN Raise("TypeError")
         ELSE IF \E i \in 1..(Len(parameters) - 1) :
                    getattr_cls(parameters[i], DIMENSION) # PyInt(DIMENSION)
              THEN Raise("TypeError")
              ELSE None
    ELSE Raise("ValueError")

\* DataShape.__init__(*parameters, name=name): the object and the registry after.
DataShape_init(reg, id, parameters, name) ==
    LET chk == DataShape_check(parameters)
        self == [kind |-> "DataShape", id |-> id, parameters |-> parameters,
                 name |-> IF Truthy(name) THEN name ELSE None]
    IN  IF IsRaise(chk) THEN [ret |-> chk, reg |-> reg]
        ELSE IF Truthy(name)
             THEN [ret |-> self, reg |-> SetItem(reg, name.str, self)]
             ELSE [ret |-> self, reg |-> reg]

\* DataShape(*parameters) without a name: the registry is not touched.
DataShape(id, parameters) ==
    DataShape_init(<<>>, id, parameters, None).ret


\* isinstance(x, _inttypes)
IsInt(x) == x.kind = "int"

\* isinstance(x, _strtypes)
IsStr(x) == x.kind = "str"

\* Mono.__init__(*params), for the variants that do not override it
\* (Null, Date, Bytes, Var).
Mono_init(kind, id, params) ==
    [kind |-> kind, id |-> id, parameters |-> params]

Null(id) == Mono_init("Null", id, <<>>)

Date(id) == Mono_init("Date", id, <<>>)

Bytes(id) == Mono_init("Bytes", id, <<>>)

Var(id) == Mono_init("Var", id, <<>>)

\* JSON.__init__()
JSON(id) == [kind |-> "JSON", id |-> id, parameters |-> <<>>]

\* Ellipsis.__init__(typevar=None)
Ellipsis(id, typevar) ==
    [kind |-> "Ellipsis", id |-> id, parameters |-> <<typevar>>]

\* IntegerConstant.__init__(i)
IntegerConstant(id, i) ==
    IF ~IsInt(i) THEN Raise("AssertionError")
    ELSE [kind |-> "IntegerConstant", id |-> id, parameters |-> <<i>>, val |-> i]

\* StringConstant.__init__(i)
StringConstant(id, i) ==
    IF ~IsStr(i) THEN Raise("AssertionError")
    ELSE [kind |-> "StringConstant", id |-> id, parameters |-> <<i>>, val |-> i]

\* Time.__init__(tz=None)
Time(id, tz) ==
    IF tz # None /\ ~IsStr(tz) THEN Raise("ValueError")
    ELSE [kind |-> "Time", id |-> id, tz |-> tz, parameters |-> <<tz>>]

\* DateTime.__init__(tz=None)
DateTime(id, tz) ==
    IF tz # None /\ ~IsStr(tz) THEN Raise("ValueError")
    ELSE [kind |-> "DateTime", id |-> id, tz |-> tz, parameters |-> <<tz>>]

\* operator.index(i): an int is itself, a Fixed has __index__, anything else fails.
operator_index(i) ==
    CASE i.kind = "int" -> i
      [] i.kind = "Fixed" -> i.val
      [] OTHER -> Raise("TypeError")

\* Fixed.__init__(i)
Fixed(id, i) ==
    LET ix == operator_index(i)
    IN  IF IsRaise(ix) THEN ix
        ELSE IF ix.int < 0 THEN Raise("ValueError")
        ELSE [kind |-> "Fixed", id |-> id, val |-> ix, parameters |-> <<ix>>]

\* str.isupper() of one character
isupper(c) ==
    c \in {"A", "B", "C", "D", "E", "F", "G", "H", "I", "J", "K", "L", "M",
           "N", "O", "P", "Q", "R", "S", "T", "U", "V", "W", "X", "Y", "Z"}

\* TypeVar.__init__(symbol); symbol is a str given by its characters.
TypeVar(id, symbol) ==
    IF symbol.chars = <<>> THEN Raise("IndexError")
    ELSE IF ~isupper(symbol.chars[1]) THEN Raise("ValueError")
    ELSE [kind |-> "TypeVar", id |-> id, symbol |-> symbol,
          parameters |-> <<symbol>>]

_canonical_string_encodings ==
    [e \in {"A", "ascii", "U8", "utf-8", "utf_8", "utf8", "U16", "utf-16",
            "utf_16", "utf16", "U32", "utf-32", "utf_32", "utf32"} |->
        CASE e \in {"A", "ascii"} -> "A"
          [] e \in {"U8", "utf-8", "utf_8", "utf8"} -> "U8"
          [] e \in {"U16", "utf-16", "utf_16", "utf16"} -> "U16"
          [] OTHER -> "U32"]

\* String.__init__(fixlen=None, encoding=None)
String(id, fixlen, encoding) ==
    LET isI(v) == v.kind \in {"int", "IntegerConstant"}
        isS(v) == v.kind \in {"str", "StringConstant"}
        unI(v) == IF v.kind = "IntegerConstant" THEN v.val ELSE v
        unS(v) == IF v.kind = "StringConstant" THEN v.val ELSE v
        fl  == CASE fixlen = None /\ encoding = None -> None
                 [] isI(fixlen) /\ encoding = None -> unI(fixlen)
                 [] isS(fixlen) /\ encoding = None -> None
                 [] isI(fixlen) /\ isS(encoding) -> unI(fixlen)
                 [] OTHER -> Raise("ValueError")
        enc == CASE fixlen = None /\ encoding = None -> PyStr("U8")
                 [] isI(fixlen) /\ encoding = None -> PyStr("U8")
                 [] isS(fixlen) /\ encoding = None -> unS(fixlen)
                 [] isI(fixlen) /\ isS(encoding) -> unS(encoding)
                 [] OTHER -> Raise("ValueError")
    IN  IF IsRaise(enc) THEN enc
        ELSE IF enc.str \notin DOMAIN _canonical_string_encodings
        THEN Raise("ValueError")
        ELSE [kind |-> "String", id |-> id, fixlen |-> fl,
              encoding |-> PyStr(_canonical_string_encodings[enc.str]),
              parameters |-> IF fl = None THEN <<enc>> ELSE <<fl, enc>>]

\* The CType objects the module creates at import (lines 847-924): the object
\* CType.__init__ builds, as registered under its own name.
CTypeObj(name, itemsize, alignment) ==
    CType_init(<<>>, 0, name, itemsize, alignment).ret

float64 == CTypeObj("float64", 8, 8)

int32 == CTypeObj("int32", 4, 4)

int64 == CTypeObj("int64", 8, 8)

float32 == CTypeObj("float32", 4, 4)

\* Units.__init__(unit, tp=None)
Units(id, unit, tp) ==
    IF ~IsStr(unit) THEN Raise("ValueError")
    ELSE IF tp # None /\ tp.kind # "DataShape" THEN Raise("ValueError")
    ELSE LET t == IF tp = None THEN DataShape(id, <<float64>>) ELSE tp
         IN  [kind |-> "Units", id |-> id, unit |-> unit, tp |-> t,
              parameters |-> <<unit, t>>]

\* len(ds) for a Mono (Mono.__len__, DataShape.__len__)
Mono_len(ds) == IF ds.kind = "DataShape" THEN Len(ds.parameters) ELSE 1

\* Option.__init__(ds)
Option(id, ds) ==
    LET d == IF ds.kind = "DataShape" /\ Mono_len(ds) = 1
             THEN ds.parameters[1] ELSE ds
    IN  IF d.kind \notin DOMAIN ClsAttr THEN Raise("AttributeError")
        ELSE IF ClsAttr[d.kind] # PyInt(MEASURE) THEN Raise("TypeError")
        ELSE [kind |-> "Option", id |-> id, parameters |-> <<d>>, ty |-> d]

\* Function.__init__(*parameters)
Function(id, parameters) ==
    [kind |-> "Function", id |-> id, parameters |-> parameters]

\* Tuple.__init__(dshapes)
Tuple(id, dshapes) ==
    [kind |-> "Tuple", id |-> id, dshapes |-> PyTuple(dshapes.items),
     parameters |-> <<dshapes>>]

\* dict(pairs): for a repeated key the last pair wins.
dict(pairs) ==
    [n \in {pairs[i][1] : i \in DOMAIN pairs} |->
        LET i == CHOOSE i \in DOMAIN pairs :
                    /\ pairs[i][1] = n
                    /\ \A j \in DOMAIN pairs : pairs[j][1] = n => j <= i
        IN  pairs[i][2]]

\* Record.__init__(fields); fields is a sequence of <<name, type>> pairs.
Record(id, fields) ==
    LET fnames == [i \in DOMAIN fields |-> fields[i][1]]
        ftypes == [i \in DOMAIN fields |->
                      IF fields[i][2].kind = "DataShape" THEN fields[i][2]
                      ELSE DataShape(id, <<fields[i][2]>>)]
        zipped == [i \in DOMAIN fields |-> <<fnames[i], ftypes[i]>>]
    IN  IF \E i \in DOMAIN fields : IsRaise(ftypes[i])
        THEN ftypes[CHOOSE i \in DOMAIN fields :
                       /\ IsRaise(ftypes[i])
                       /\ \A j \in DOMAIN fields : IsRaise(ftypes[j]) => i <= j]
        ELSE [kind |-> "Record", id |-> id,
              fnames |-> fnames, ftypes |-> ftypes, fields |-> zipped,
              fdict |-> dict(zipped),
              parameters |-> <<PyTuple([i \in DOMAIN zipped |->
                                 PyTuple(<<PyStr(zipped[i][1]), zipped[i][2]>>)])>>]

----------------------------------------------------------------------------
(* Equality: x == y *)

PyBool(b) == [kind |-> "bool", bool |-> b]

\* x is y: the same object.
Is(x, y) == x = y

RECURSIVE Eq(_, _), SeqEq(_, _, _), DictEq(_, _, _), Mono_eq(_, _)

\* tuple == tuple (and list == list): the first index at which the items are
\* neither identical nor equal decides; without one, the lengths decide.
SeqEq(a, b, i) ==
    IF i > Len(a) \/ i > Len(b) THEN PyBool(Len(a) = Len(b))
    ELSE IF Is(a[i], b[i]) THEN SeqEq(a, b, i + 1)
    ELSE LET r == Eq(a[i], b[i])
         IN  IF IsRaise(r) THEN r
             ELSE IF r.bool THEN SeqEq(a, b, i + 1)
             ELSE PyBool(FALSE)

\* dict == dict over the keys of x in order (keys[i..]): same size, every key
\* of x in y with an identical or equal value.
DictEq(x, y, keys) ==
    IF Cardinality(DOMAIN x) # Cardinality(DOMAIN y) THEN PyBool(FALSE)
    ELSE IF keys = <<>> THEN PyBool(TRUE)
    ELSE IF Head(keys) \notin DOMAIN y THEN PyBool(FALSE)
    ELSE IF Is(x[Head(keys)], y[Head(keys)]) THEN DictEq(x, y, Tail(keys))
    ELSE LET r == Eq(x[Head(keys)], y[Head(keys)])
         IN  IF IsRaise(r) THEN r
             ELSE IF r.bool THEN DictEq(x, y, Tail(keys))
             ELSE PyBool(FALSE)

\* Equality of two raw values (neither is a Mono).
RawEq(x, y) ==
    CASE x.kind = "int" /\ y.kind = "int" -> PyBool(x.int = y.int)
      [] x.kind = "str" /\ y.kind = "str" -> PyBool(x = y)
      [] x.kind = "NoneType" /\ y.kind = "NoneType" -> PyBool(TRUE)
      [] x.kind = "tuple" /\ y.kind = "tuple" -> SeqEq(x.items, y.items, 1)
      [] x.kind = "list" /\ y.kind = "list" -> SeqEq(x.items, y.items, 1)
      [] OTHER -> PyBool(Is(x, y))

\* a and b, for the results of two comparisons (b is not evaluated when a is
\* false or raises).
AndThen(a, b) == IF IsRaise(a) THEN a ELSE IF a.bool THEN b ELSE a

\* The Mono variants that define __eq__ (Null and Implements do not).
DefinesEq(x) == isinstance_Mono(x) /\ x.kind \notin {"Null", "Implements"}

\* type(self).__eq__(self, other) for a Mono self that defines it.
Mono_eq(self, other) ==
    CASE self.kind = "Ellipsis" ->
            IF other.kind = "Ellipsis"
            THEN SeqEq(self.parameters, other.parameters, 1) ELSE PyBool(FALSE)
      [] self.kind = "IntegerConstant" ->
            IF IsInt(other) THEN Eq(self.val, other)
            ELSE IF other.kind = "IntegerConstant" THEN Eq(self.val, other.val)
            ELSE Raise("TypeError")
      [] self.kind = "StringConstant" ->
            IF IsStr(other) THEN Eq(self.val, other)
            ELSE IF other.kind = "StringConstant" THEN Eq(self.val, other.val)
            ELSE Raise("TypeError")
      [] self.kind \in {"Date", "Bytes", "Var", "JSON"} ->
            PyBool(other.kind = self.kind)
      [] self.kind \in {"Time", "DateTime"} ->
            IF other.kind = self.kind THEN Eq(self.tz, other.tz) ELSE PyBool(FALSE)
      [] self.kind = "Units" ->
            IF other.kind = "Units"
            THEN AndThen(Eq(self.unit, other.unit), Eq(self.tp, other.tp))
            ELSE PyBool(FALSE)
      [] self.kind = "String" ->
            IF other.kind = "String"
            THEN AndThen(Eq(self.fixlen, other.fixlen),
                         Eq(self.encoding, other.encoding))
            ELSE PyBool(FALSE)
      [] self.kind = "DataShape" ->
            IF other.kind = "DataShape"
            THEN SeqEq(self.parameters, other.parameters, 1)
            ELSE IF isinstance_Mono(other) THEN PyBool(FALSE)
            ELSE Raise("TypeError")
      [] self.kind = "Option" ->
            IF other.kind = "Option" THEN Eq(self.ty, other.ty) ELSE PyBool(FALSE)
      [] self.kind = "CType" ->
            IF other.kind = "CType" THEN Eq(self.name, other.name)
            ELSE PyBool(FALSE)
      [] self.kind = "Fixed" ->
            IF other.kind = "Fixed" THEN Eq(self.val, other.val)
            ELSE IF IsInt(other) THEN Eq(self.val, other)
            ELSE PyBool(FALSE)
      [] self.kind = "TypeVar" ->
            IF other.kind = "TypeVar" THEN Eq(self.symbol, other.symbol)
            ELSE PyBool(FALSE)
      [] self.kind = "Function" ->
            IF other.kind = "Function"
            THEN SeqEq(self.parameters, other.parameters, 1) ELSE PyBool(FALSE)
      [] self.kind = "Record" ->
            IF other.kind = "Record"
            THEN DictEq(self.fdict, other.fdict, self.fnames) ELSE PyBool(FALSE)
      [] self.kind = "Tuple" ->
            IF other.kind = "Tuple" THEN Eq(self.dshapes, other.dshapes)
            ELSE PyBool(FALSE)
      [] OTHER -> PyBool(Is(self, other))

\* x == y: the left operand's __eq__; a left operand that has none for the
\* right one (a raw value, or a Null or Implements, which define no __eq__)
\* defers to the right operand's __eq__; with neither, object identity.
Eq(x, y) ==
    IF DefinesEq(x) THEN Mono_eq(x, y)
    ELSE IF DefinesEq(y) THEN Mono_eq(y, x)
    ELSE IF ~isinstance_Mono(x) /\ ~isinstance_Mono(y) THEN RawEq(x, y)
    ELSE PyBool(Is(x, y))

----------------------------------------------------------------------------
(* Hashing: hash(x).  A hash value is modelled by what it is computed from,  *)
(* so two hashes are equal exactly when they are computed from equal data.   *)

RECURSIVE Hash(_, _), HashSeq(_, _)

\* The hashes of the items of a tuple, or the first exception hashing one raises.
HashSeq(ver, items) ==
    IF items = <<>> THEN [kind |-> "hashes", of |-> <<>>]
    ELSE LET h == Hash(ver, Head(items))
             rest == HashSeq(ver, Tail(items))
         IN  IF IsRaise(h) THEN h
             ELSE IF IsRaise(rest) THEN rest
             ELSE [kind |-> "hashes", of |-> <<h>> \o rest.of]

\* hash(tuple(items))
HashTuple(ver, items) ==
    LET hs == HashSeq(ver, items)
    IN  IF IsRaise(hs) THEN hs
        ELSE [kind |-> "hash", h |-> "tuple", of |-> hs.of]

\* object.__hash__: by identity.
HashId(x) == [kind |-> "hash", h |-> "id", obj |-> x]

\* hash(x) under interpreter version ver.
Hash(ver, x) ==
    CASE x.kind = "int" -> [kind |-> "hash", h |-> "int", int |-> x.int]
      [] x.kind = "str" -> [kind |-> "hash", h |-> "str", s |-> x]
      [] x.kind = "NoneType" -> [kind |-> "hash", h |-> "None"]
      [] x.kind = "tuple" -> HashTuple(ver, x.items)
      [] x.kind = "list" -> Raise("TypeError")
      [] x.kind = "Ellipsis" -> HashTuple(ver, <<x.parameters[1], PyStr("...")>>)
      [] x.kind \in {"IntegerConstant", "StringConstant", "Fixed"} -> Hash(ver, x.val)
      [] x.kind = "String" -> HashTuple(ver, <<x.fixlen, x.encoding>>)
      [] x.kind = "DataShape" -> HashTuple(ver, x.parameters)
      [] x.kind = "Option" -> HashTuple(ver, <<PyStr("option"), x.ty>>)
      [] x.kind = "CType" -> Hash(ver, x.name)
      [] x.kind = "Var" -> HashId(PyClass("Var"))
      [] x.kind = "TypeVar" -> Hash(ver, x.symbol)
      [] x.kind = "Function" -> HashTuple(ver, <<PyStr("Function")>> \o x.parameters)
      [] x.kind = "Record" ->
            HashTuple(ver, [i \in DOMAIN x.fields |->
                              PyTuple(<<PyStr(x.fields[i][1]), x.fields[i][2]>>)])
      [] x.kind = "Tuple" -> Hash(ver, x.dshapes)
      \* __eq__ without __hash__ (Date, Time, DateTime, Units, Bytes, JSON):
      \* Python 2 keeps the identity hash, Python 3 makes the class unhashable.
      [] x.kind \in {"Date", "Time", "DateTime", "Units", "Bytes", "JSON"} ->
            IF ver = 2 THEN HashId(x) ELSE Raise("TypeError")
      \* Null, Implements: neither __eq__ nor __hash__.
      [] OTHER -> HashId(x)

----------------------------------------------------------------------------
(* Structural queries and algebra utilities *)

\* DataShape.shape with the slice dropped: every parameter, the measure too.
shape_with_measure(self) ==
    IF self.kind = "DataShape" THEN self.parameters ELSE <<>>

\* Mono.shape / DataShape.shape
shape(self) ==
    IF self.kind = "DataShape"
    THEN SubSeq(self.parameters, 1, Len(self.parameters) - 1)
    ELSE <<>>

\* Mono.measure / DataShape.measure
measure(self) ==
    IF self.kind = "DataShape" THEN self.parameters[Len(self.parameters)]
    ELSE self

DigitChars == <<"0", "1", "2", "3", "4", "5", "6", "7", "8", "9">>

\* str(n) for n >= 0, as its characters.
RECURSIVE str_int(_)
str_int(n) ==
    IF n < 10 THEN <<DigitChars[n + 1]>>
    ELSE str_int(n \div 10) \o <<DigitChars[(n % 10) + 1]>>

\* 'i%s' % n
i_percent_s(n) == PySym(<<"i">> \o str_int(n))

\* DataShape.sigform(); id is the identity of the objects it creates.
DataShape_sigform(id, self) ==
    LET n == Len(self.parameters) - 1
        newparams == [k \in 1..n |-> TypeVar(id, i_percent_s(k - 1))]
    IN  IF \E k \in 1..n : IsRaise(newparams[k])
        THEN newparams[CHOOSE k \in 1..n :
                 IsRaise(newparams[k]) /\ \A j \in 1..n : IsRaise(newparams[j]) => k <= j]
        ELSE DataShape(id, newparams \o <<self.parameters[n + 1]>>)

\* x.sigform(): Mono.sigform returns self, DataShape overrides it.
sigform(id, self) ==
    IF self.kind = "DataShape" THEN DataShape_sigform(id, self) ELSE self

\* seq[start:] for a tuple
SliceFrom(seq, start) ==
    LET n == Len(seq)
        s0 == IF start < 0 THEN (IF start + n < 0 THEN 0 ELSE start + n)
              ELSE (IF start > n THEN n ELSE start)
    IN  SubSeq(seq, s0 + 1, n)

\* DataShape.subarray(leading) with one comparison shifted: leading equal to
\* the parameter count is let through.
DataShape_subarray_gt(id, self, leading) ==
    IF leading > Len(self.parameters) THEN Raise("IndexError")
    ELSE IF leading \in {Len(self.parameters) - 1, -1}
    THEN self.parameters[Len(self.parameters)]
    ELSE DataShape(id, SliceFrom(self.parameters, leading))

\* DataShape.subarray(leading) with the measure branch removed: dropping every
\* dimension wraps the measure in a DataShape.
DataShape_subarray_wrap(id, self, leading) ==
    IF leading >= Len(self.parameters) THEN Raise("IndexError")
    ELSE DataShape(id, SliceFrom(self.parameters, leading))

\* DataShape.subarray(leading)
DataShape_subarray(id, self, leading) ==
    IF leading >= Len(self.parameters) THEN Raise("IndexError")
    ELSE IF leading \in {Len(self.parameters) - 1, -1}
    THEN self.parameters[Len(self.parameters)]
    ELSE DataShape(id, SliceFrom(self.parameters, leading))

\* Mono.subarray(leading)
Mono_subarray(self, leading) ==
    IF leading >= 1 THEN Raise("IndexError") ELSE self

\* x.subarray(leading)
subarray(id, self, leading) ==
    IF self.kind = "DataShape" THEN DataShape_subarray(id, self, leading)
    ELSE Mono_subarray(self, leading)

RECURSIVE free(_), free_all(_)

\* The loop of free: result.extend(free(x)) for x in ds.parameters
free_all(params) ==
    IF params = <<>> THEN <<>>
    ELSE free(Head(params)) \o free_all(Tail(params))

\* free(ds)
free(ds) ==
    IF ds.kind = "TypeVar" THEN <<ds>>
    ELSE IF isinstance_Mono(ds) /\ ~isinstance_Unit(ds) THEN free_all(ds.parameters)
    ELSE <<>>

\* type_constructor(ds)
type_constructor(ds) == PyClass(ds.kind)

\* cls(*args): the constructor of class `kind` applied to positional
\* arguments, with Python's check of the argument count.
construct(reg, kind, id, args) ==
    LET n == Len(args)
        arg(i) == IF i <= n THEN args[i] ELSE None
    IN  CASE kind \in {"Null", "Date", "Bytes", "Var", "Implements"} ->
                Mono_init(kind, id, args)
          [] kind = "JSON" -> IF n = 0 THEN JSON(id) ELSE Raise("TypeError")
          [] kind = "Ellipsis" ->
                IF n <= 1 THEN Ellipsis(id, arg(1)) ELSE Raise("TypeError")
          [] kind = "IntegerConstant" ->
                IF n = 1 THEN IntegerConstant(id, args[1]) ELSE Raise("TypeError")
          [] kind = "StringConstant" ->
                IF n = 1 THEN StringConstant(id, args[1]) ELSE Raise("TypeError")
          [] kind = "Time" -> IF n <= 1 THEN Time(id, arg(1)) ELSE Raise("TypeError")
          [] kind = "DateTime" ->
                IF n <= 1 THEN DateTime(id, arg(1)) ELSE Raise("TypeError")
          [] kind = "Units" ->
                IF n \in {1, 2} THEN Units(id, args[1], arg(2)) ELSE Raise("TypeError")
          [] kind = "String" ->
                IF n <= 2 THEN String(id, arg(1), arg(2)) ELSE Raise("TypeError")
          [] kind = "CType" ->
                IF n = 3
                THEN CType_init(reg, id, args[1].str, args[2].int, args[3].int).ret
                ELSE Raise("TypeError")
          [] kind = "Fixed" -> IF n = 1 THEN Fixed(id, args[1]) ELSE Raise("TypeError")
          [] kind = "TypeVar" ->
                IF n = 1 THEN TypeVar(id, args[1]) ELSE Raise("TypeError")
          [] kind = "Option" -> IF n = 1 THEN Option(id, args[1]) ELSE Raise("TypeError")
          [] kind = "Function" -> Function(id, args)
          [] kind = "DataShape" -> DataShape(id, args)
          [] kind = "Record" ->
                IF n = 1
                THEN Record(id, [i \in DOMAIN args[1].items |->
                                   <<args[1].items[i].items[1].str,
                                     args[1].items[i].items[2]>>])
                ELSE Raise("TypeError")
          [] kind = "Tuple" -> IF n = 1 THEN Tuple(id, args[1]) ELSE Raise("TypeError")

\* type(t)(*t.parameters)
reconstruct(reg, id, t) == construct(reg, t.kind, id, t.parameters)

----------------------------------------------------------------------------
(* Canonical strings: str(x), a Python str given as a string *)

\* ''.join(chars)
RECURSIVE join_chars(_)
join_chars(chars) ==
    IF chars = <<>> THEN "" ELSE Head(chars) \o join_chars(Tail(chars))

\* sep.join(strs)
RECURSIVE join(_, _)
join(sep, strs) ==
    IF strs = <<>> THEN ""
    ELSE IF Len(strs) = 1 THEN strs[1]
    ELSE strs[1] \o sep \o join(sep, Tail(strs))

\* repr(s) of a str, after .strip('u') where the source strips the prefix of a
\* Python 2 unicode.
repr_str(s) == "'" \o s \o "'"

\* CType.__str__ with the fix-up of to_numpy_dtype applied: the complex types
\* render under their native names.
CType_str_numpy(self) ==
    CASE self.name.str = "complex[float32]" -> "complex64"
      [] self.name.str = "complex[float64]" -> "complex128"
      [] OTHER -> self.name.str

\* CType.__str__
CType_str(self) == self.name.str

\* String.__str__
String_str(self) ==
    CASE self.fixlen = None /\ self.encoding.str = "U8" -> "string"
      [] self.fixlen # None /\ self.encoding.str = "U8" ->
            "string[" \o join_chars(str_int(self.fixlen.int)) \o "]"
      [] self.fixlen = None /\ self.encoding.str # "U8" ->
            "string[" \o repr_str(self.encoding.str) \o "]"
      [] OTHER ->
            "string[" \o join_chars(str_int(self.fixlen.int)) \o ", "
                \o repr_str(self.encoding.str) \o "]"

RECURSIVE str(_), record_body(_, _, _)

\* The loop of record_string over zip(fields, values), from the i-th pair on.
record_body(fields, values, i) ==
    IF i > Len(fields) \/ i > Len(values) THEN ""
    ELSE (fields[i] \o " : " \o str(values[i])
            \o (IF i = Len(fields) THEN "" ELSE ", "))
         \o record_body(fields, values, i + 1)

\* record_string(fields, values) listing the pairs last to first.
record_string_reversed(fields, values) ==
    LET rev(q) == [i \in DOMAIN q |-> q[Len(q) + 1 - i]]
    IN  "{ " \o record_body(rev(fields), rev(values), 1) \o " }"

\* record_string(fields, values)
record_string(fields, values) ==
    "{ " \o record_body(fields, values, 1) \o " }"

\* str(x): the __str__ of x's variant.
str(x) ==
    CASE x.kind = "int" -> join_chars(str_int(x.int))
      [] x.kind = "str" -> x.str
      [] x.kind = "Null" -> "null"
      [] x.kind \in {"IntegerConstant", "Fixed"} -> str(x.val)
      [] x.kind = "StringConstant" -> repr_str(x.val.str)
      [] x.kind = "Date" -> "date"
      [] x.kind = "Time" ->
            IF x.tz = None THEN "time"
            ELSE "time[tz=" \o repr_str(x.tz.str) \o "]"
      [] x.kind = "DateTime" ->
            IF x.tz = None THEN "datetime"
            ELSE "datetime[tz=" \o repr_str(x.tz.str) \o "]"
      [] x.kind = "Units" ->
            IF Eq(x.tp, DataShape(x.id, <<float64>>)) = PyBool(TRUE)
            THEN "units[" \o repr_str(x.unit.str) \o "]"
            ELSE "units[" \o repr_str(x.unit.str) \o ", " \o str(x.tp) \o "]"
      [] x.kind = "Bytes" -> "bytes"
      [] x.kind = "String" -> String_str(x)
      [] x.kind = "CType" -> CType_str(x)
      [] x.kind = "Var" -> "var"
      [] x.kind = "TypeVar" -> join_chars(x.symbol.chars)
      [] x.kind = "JSON" -> "json"
      [] x.kind = "Ellipsis" ->
            IF Truthy(x.parameters[1]) THEN str(x.parameters[1]) \o "..."
            ELSE "..."
      [] x.kind = "DataShape" ->
            IF Truthy(x.name) THEN x.name.str
            ELSE join(" * ", [i \in DOMAIN x.parameters |-> str(x.parameters[i])])
      [] x.kind = "Option" -> "option[" \o str(x.ty) \o "]"
      [] x.kind = "Function" ->
            "(" \o join(", ", [i \in 1..(Len(x.parameters) - 1) |->
                                 str(x.parameters[i])])
                \o ") -> " \o str(x.parameters[Len(x.parameters)])
      [] x.kind = "Record" -> record_string(x.fnames, x.ftypes)
      [] x.kind = "Tuple" ->
            "(" \o join(", ", [i \in DOMAIN x.dshapes.items |->
                                 str(x.dshapes.items[i])]) \o ")"

----------------------------------------------------------------------------
(* Native-array interop.  A numpy dtype is a record of the attributes the    *)
(* module reads: kind (dkind), name, itemsize, and the (name, dtype) fields  *)
(* of a structured dtype in declaration order.                               *)

\* A Python float, as a fraction.
PyFloat(num, den) == [kind |-> "float", num |-> num, den |-> den]

\* The scalar dtypes numpy knows by name: kind code and itemsize.
NumpyScalars ==
    [n \in {"bool", "int8", "int16", "int32", "int64", "uint8", "uint16",
            "uint32", "uint64", "float16", "float32", "float64", "complex64",
            "complex128", "void", "object", "datetime64"} |->
        CASE n = "bool" -> <<"b", 1>>
          [] n = "int8" -> <<"i", 1>>
          [] n = "int16" -> <<"i", 2>>
          [] n = "int32" -> <<"i", 4>>
          [] n = "int64" -> <<"i", 8>>
          [] n = "uint8" -> <<"u", 1>>
          [] n = "uint16" -> <<"u", 2>>
          [] n = "uint32" -> <<"u", 4>>
          [] n = "uint64" -> <<"u", 8>>
          [] n = "float16" -> <<"f", 2>>
          [] n = "float32" -> <<"f", 4>>
          [] n = "float64" -> <<"f", 8>>
          [] n = "complex64" -> <<"c", 8>>
          [] n = "complex128" -> <<"c", 16>>
          [] n = "void" -> <<"V", 0>>
          [] n = "datetime64" -> <<"M", 8>>
          [] OTHER -> <<"O", 8>>]

\* np.dtype(s) for a type name: a name numpy does not know is a TypeError.
np_dtype(s) ==
    IF s \in DOMAIN NumpyScalars
    THEN [kind |-> "dtype", dkind |-> NumpyScalars[s][1], name |-> s,
          itemsize |-> NumpyScalars[s][2], fields |-> <<>>]
    ELSE Raise("TypeError")

\* np.dtype('S<n>') and np.dtype('U<n>'): byte and unicode strings of n
\* characters.
np_dtype_string(dkind, n) ==
    [kind |-> "dtype", dkind |-> dkind,
     name |-> IF dkind = "S" THEN "bytes" ELSE "str",
     itemsize |-> IF dkind = "S" THEN n ELSE 4 * n, fields |-> <<>>]

\* np.dtype([(name, dtype), ...]): a repeated field name is a ValueError.
np_dtype_fields(pairs) ==
    IF \E i, j \in DOMAIN pairs : i # j /\ pairs[i][1] = pairs[j][1]
    THEN Raise("ValueError")
    ELSE [kind |-> "dtype", dkind |-> "V", name |-> "record",
          itemsize |-> 0, fields |-> pairs]

\* CType.to_numpy_dtype without the fix-up of the complex names.
CType_to_numpy_dtype_by_name(self) == np_dtype(self.name.str)

\* CType.to_numpy_dtype
CType_to_numpy_dtype(self) ==
    LET s == self.name.str
    IN  np_dtype(CASE s = "complex[float32]" -> "complex64"
                   [] s = "complex[float64]" -> "complex128"
                   [] OTHER -> s)

\* The first exception in a sequence of results, if there is one.
FirstRaise(rs) ==
    rs[CHOOSE i \in DOMAIN rs :
          IsRaise(rs[i]) /\ \A j \in DOMAIN rs : IsRaise(rs[j]) => i <= j]

\* The dimension loop of to_numpy taking a Var dimension for a wildcard too.
to_numpy_dim_var(dim) ==
    CASE dim.kind = "IntegerConstant" -> dim
      [] dim.kind = "Fixed" -> dim.val
      [] dim.kind \in {"TypeVar", "Var"} -> PyInt(-1)
      [] OTHER -> Raise("NotNumpyCompatible")

\* The dimension loop of to_numpy: one entry of the shape per dimension.
to_numpy_dim(dim) ==
    CASE dim.kind = "IntegerConstant" -> dim
      [] dim.kind = "Fixed" -> dim.val
      [] dim.kind = "TypeVar" -> PyInt(-1)
      [] OTHER -> Raise("NotNumpyCompatible")

RECURSIVE to_numpy(_)

\* to_numpy_dtype(ds)
to_numpy_dtype(ds) ==
    LET r == to_numpy(ds) IN IF IsRaise(r) THEN r ELSE r.items[2]

\* Record.to_numpy_dtype
Record_to_numpy_dtype(self) ==
    LET dv == [i \in DOMAIN self.ftypes |-> to_numpy_dtype(self.ftypes[i])]
    IN  IF \E i \in DOMAIN dv : IsRaise(dv[i]) THEN FirstRaise(dv)
        ELSE np_dtype_fields([i \in DOMAIN dv |-> <<self.fnames[i], dv[i]>>])

\* to_numpy(ds)
to_numpy(ds) ==
    LET isDS == ds.kind = "DataShape"
        n == IF isDS THEN Len(ds.parameters) ELSE 1
        dims == IF isDS THEN [i \in 1..(n - 1) |-> to_numpy_dim(ds.parameters[i])]
                ELSE <<>>
        msr == IF isDS THEN ds.parameters[n] ELSE ds
        dtype == CASE msr.kind = "CType" -> CType_to_numpy_dtype(msr)
                   [] msr.kind = "Record" -> Record_to_numpy_dtype(msr)
                   [] OTHER -> Raise("NotNumpyCompatible")
    IN  IF \E i \in DOMAIN dims : IsRaise(dims[i]) THEN FirstRaise(dims)
        ELSE IF IsRaise(dtype) THEN dtype
        ELSE PyTuple(<<PyTuple(dims), dtype>>)

\* CType.from_numpy_dtype(dt): Type._registry[dt.name]
CType_from_numpy_dtype(reg, dt) ==
    IF InRegistry(reg, dt.name) THEN reg[dt.name] ELSE Raise("KeyError")

\* from_numpy(shape, dt) under interpreter version ver; shp is a tuple of
\* ints, and itemsize / 4 is a float under Python 3.
from_numpy(reg, ver, id, shp, dtype) ==
    LET rec == [i \in DOMAIN dtype.fields |->
                   <<dtype.fields[i][1],
                     CType_from_numpy_dtype(reg, dtype.fields[i][2])>>]
        recTypes == [i \in DOMAIN rec |-> rec[i][2]]
        msr ==
            CASE dtype.dkind = "S" ->
                    String(id, PyInt(dtype.itemsize), PyStr("A"))
              [] dtype.dkind = "U" ->
                    String(id,
                           IF ver = 2 THEN PyInt(dtype.itemsize \div 4)
                           ELSE PyFloat(dtype.itemsize, 4),
                           PyStr("U8"))
              [] dtype.fields # <<>> ->
                    IF \E i \in DOMAIN rec : IsRaise(recTypes[i])
                    THEN FirstRaise(recTypes)
                    ELSE Record(id, rec)
              [] OTHER -> CType_from_numpy_dtype(reg, dtype)
        dims == [i \in DOMAIN shp |-> Fixed(id, shp[i])]
    IN  IF IsRaise(msr) THEN msr
        ELSE IF shp = <<>> THEN msr
        ELSE IF \E i \in DOMAIN dims : IsRaise(dims[i]) THEN FirstRaise(dims)
        ELSE DataShape(id, dims \o <<msr>>)

\* Python values typeof dispatches on, beside int, float and str: a complex, a
\* datetime.timedelta, a datetime.datetime, a numpy array (its shape and
\* dtype), and an object with a dshape attribute.
PyComplex == [kind |-> "complex"]

PyTimedelta == [kind |-> "timedelta"]

PyDatetime == [kind |-> "datetime"]

ndarray(shp, dtype) == [kind |-> "ndarray", shape |-> PyTuple(shp), dtype |-> dtype]

WithDshape(ds) == [kind |-> "object", dshape |-> ds]

\* The module-level names typeof reads.  timedelta64 and datetime64 are bound
\* nowhere in the module: reading them is a NameError.
ModuleGlobal(name) ==
    CASE name = "int_" -> int32
      [] name = "double" -> float64
      [] name = "complex128" -> CTypeObj("complex[float64]", 16, 8)
      [] name = "string" -> String(0, None, None)
      [] name = "pyobj" -> CTypeObj("object", 8, 8)
      [] OTHER -> Raise("NameError")

\* DataShape(<module-level name>) as typeof's branches evaluate it.
typeof_measure(id, name) ==
    IF IsRaise(ModuleGlobal(name)) THEN ModuleGlobal(name)
    ELSE DataShape(id, <<ModuleGlobal(name)>>)

\* typeof(obj)
typeof(reg, ver, id, obj) ==
    CASE "dshape" \in DOMAIN obj -> obj.dshape
      [] obj.kind = "ndarray" -> from_numpy(reg, ver, id, obj.shape.items, obj.dtype)
      [] obj.kind = "int" -> typeof_measure(id, "int_")
      [] obj.kind = "float" -> typeof_measure(id, "double")
      [] obj.kind = "complex" -> typeof_measure(id, "complex128")
      [] obj.kind = "str" -> typeof_measure(id, "string")
      [] obj.kind = "timedelta" -> typeof_measure(id, "timedelta64")
      [] obj.kind = "datetime" -> typeof_measure(id, "datetime64")
      [] OTHER -> typeof_measure(id, "pyobj")

----------------------------------------------------------------------------
(* The registry after the module is imported *)

\* ctypes.sizeof(ctypes.c_void_p) of the host
sizeof_c_void_p == 8

\* Type.__new__: under Python 2 the __metaclass__ attribute of Mono and
\* DataShape runs it and registers both classes; Python 3 ignores the attribute.
Type_new(ver) ==
    IF ver = 2
    THEN SetItem(SetItem(<<>>, "Mono", PyClass("Mono")),
                 "DataShape", PyClass("DataShape"))
    ELSE <<>>

\* The module-level registrations in source order: each CType(...) registers
\* itself under its name, each Type.register(alias, obj) binds an alias.
ModuleSteps ==
    LET C(n, size, align) == <<n, CTypeObj(n, size, align)>>
        ptr(n32, n64, size) ==
            IF sizeof_c_void_p = 4 THEN CTypeObj(n32, 4, 4) ELSE CTypeObj(n64, 8, 8)
    IN  << C("bool", 1, 1), C("char", 1, 1),
           C("int8", 1, 1), C("int16", 2, 2), C("int32", 4, 4), C("int64", 8, 8),
           C("uint8", 1, 1), C("uint16", 2, 2), C("uint32", 4, 4), C("uint64", 8, 8),
           C("float16", 2, 2), C("float32", 4, 4), C("float64", 8, 8),
           C("complex[float32]", 8, 4), C("complex[float64]", 16, 8),
           <<"complex64", CTypeObj("complex[float32]", 8, 4)>>,
           <<"complex128", CTypeObj("complex[float64]", 16, 8)>>,
           <<"intptr", ptr("int32", "int64", 0)>>,
           <<"uintptr", ptr("uint32", "uint64", 0)>>,
           C("void", 0, 1), C("object", 8, 8),
           <<"float", float32>>, <<"double", float64>>,
           <<"bytes", Bytes(0)>>,
           <<"string", String(0, None, None)>> >>

RECURSIVE Import(_, _)
Import(reg, steps) ==
    IF steps = <<>> THEN reg
    ELSE Import(Type_register(reg, Head(steps)[1], Head(steps)[2]).reg, Tail(steps))

ModuleRegistry(ver) == Import(Type_new(ver), ModuleSteps)

----------------------------------------------------------------------------
(* Inputs of the registry operations *)

\* Names the operations are called with: bound at import, and unbound.
NamePool == {"int32", "T", "U"}

\* Objects handed to Type.register.
TypePool == {int32, float64, String(0, None, None)}

\* Parameter tuples handed to DataShape(...): empty, a bare measure, a
\* dimension and a measure, and a measure in a dimension's place.
ParamPool ==
    { <<>>, <<int32>>, <<Fixed(0, PyInt(2)), int32>>, <<int32, Fixed(0, PyInt(2))>> }

\* The name keyword of DataShape(...): absent, empty, or a name.
NameArgs == {None, PyStr("")} \cup {PyStr(n) : n \in NamePool}

\* The names the module binds to a CType at import: the names the CType
\* objects register themselves under, and the aliases.
NativeNames ==
    {ModuleSteps[i][1] : i \in {j \in DOMAIN ModuleSteps : ModuleSteps[j][2].kind = "CType"}}

\* Names Type.lookup_type is called with.
LookupNames == NamePool \cup NativeNames

NoOp == [op |-> "none"]

Threads == {1, 2}

----------------------------------------------------------------------------
(* The state after import *)

Init ==
    /\ pyver \in {2, 3}
    /\ registry = ModuleRegistry(pyver)
    /\ last = NoOp
    /\ pc = [t \in Threads |-> "idle"]
    /\ targ = [t \in Threads |-> None]
    /\ calls = [t \in Threads |-> 0]
    /\ call = NoOp
    /\ ret = None

----------------------------------------------------------------------------
(* Sequential registry operations *)

\* Type.register(name, type)
Register(name, type) ==
    LET r == Type_register(registry, name, type)
    IN  /\ registry' = r.reg
        /\ last' = [op |-> "register", name |-> name, arg |-> type,
                    result |-> r.ret, before |-> registry]
        /\ UNCHANGED <<pyver, pc, targ, calls, call, ret>>

\* CType(name, itemsize, alignment)
NewCType(name, itemsize) ==
    LET r == CType_init(registry, 1, name, itemsize, itemsize)
    IN  /\ registry' = r.reg
        /\ last' = [op |-> "CType", name |-> name, arg |-> None,
                    result |-> r.ret, before |-> registry]
        /\ UNCHANGED <<pyver, pc, targ, calls, call, ret>>

\* DataShape(*parameters, name=name)
NewDataShape(parameters, name) ==
    LET r == DataShape_init(registry, 1, parameters, name)
    IN  /\ registry' = r.reg
        /\ last' = [op |-> "DataShape", name |-> name, arg |-> PyTuple(parameters),
                    result |-> r.ret, before |-> registry]
        /\ UNCHANGED <<pyver, pc, targ, calls, call, ret>>

\* Type.lookup_type(name)
Lookup(name) ==
    /\ last' = [op |-> "lookup_type", name |-> name, arg |-> None,
                result |-> Type_lookup_type(registry, name), before |-> registry]
    /\ UNCHANGED <<pyver, registry, pc, targ, calls, call, ret>>

Next ==
    \/ \E n \in NamePool, t \in TypePool : Register(n, t)
    \/ \E n \in NamePool, size \in {4} : NewCType(n, size)
    \/ \E p \in ParamPool, n \in NameArgs : NewDataShape(p, n)
    \/ \E n \in LookupNames : Lookup(n)

Spec == Init /\ [][Next]_vars

----------------------------------------------------------------------------
(* Type.register run by two threads: the membership test (line 36) and the   *)
(* store (line 40) are separate steps, and nothing in the code holds a lock  *)
(* between them.                                                             *)

\* A thread enters Type.register(name, type).
TCall(t, name, type) ==
    /\ pc[t] = "idle"
    /\ calls[t] < MaxCalls
    /\ calls' = [calls EXCEPT ![t] = @ + 1]
    /\ targ' = [targ EXCEPT ![t] = [kind |-> "args", name |-> name, type |-> type]]
    /\ pc' = [pc EXCEPT ![t] = "check"]
    /\ UNCHANGED <<pyver, registry, last, call, ret>>

\* if name in cls._registry: raise TypeError
TCheck(t) ==
    /\ pc[t] = "check"
    /\ pc' = [pc EXCEPT ![t] = IF InRegistry(registry, targ[t].name)
                               THEN "raised" ELSE "store"]
    /\ UNCHANGED <<pyver, registry, last, targ, calls, call, ret>>

\* cls._registry[name] = type
TStore(t) ==
    /\ pc[t] = "store"
    /\ registry' = SetItem(registry, targ[t].name, targ[t].type)
    /\ pc' = [pc EXCEPT ![t] = "returned"]
    /\ UNCHANGED <<pyver, last, targ, calls, call, ret>>

\* The caller takes the outcome and is free to call again.
TDone(t) ==
    /\ pc[t] \in {"raised", "returned"}
    /\ pc' = [pc EXCEPT ![t] = "idle"]
    /\ UNCHANGED <<pyver, registry, last, targ, calls, call, ret>>

NextThreads ==
    \/ \E t \in Threads, n \in NamePool, ty \in TypePool : TCall(t, n, ty)
    \/ \E t \in Threads : TCheck(t)
    \/ \E t \in Threads : TStore(t)
    \/ \E t \in Threads : TDone(t)

SpecThreads == Init /\ [][NextThreads]_vars

----------------------------------------------------------------------------
(* Inputs of the algebra operations.  Every pool takes the identity given   *)
(* to the objects it constructs, so that Pool(1) and Pool(2) hold the same  *)
(* values constructed independently; the CType objects are the module's.    *)

TV(id, c) == TypeVar(id, PySym(<<c>>))

DimPool(id) ==
    {Fixed(id, PyInt(k)) : k \in 0..MaxFixed} \cup {Var(id), TV(id, "A")}

MeasurePool(id) ==
    { int32, String(id, None, None), TV(id, "B"),
      Record(id, << <<"x", TV(id, "A")>>, <<"y", int32>> >>) }

\* Dimension prefixes of up to MaxDims dimensions.
Shapes(id) == UNION {[1..n -> DimPool(id)] : n \in 0..MaxDims}

DataShapePool(id) ==
    {DataShape(id, d \o <<m>>) : d \in Shapes(id), m \in MeasurePool(id)}

\* One or more nodes of every variant, and raw values.
NodeSeq(id) ==
    << Null(id),
       IntegerConstant(id, PyInt(1)),
       StringConstant(id, PyStr("s")),
       Date(id),
       Time(id, None),
       Time(id, PyStr("UTC")),
       DateTime(id, None),
       Units(id, PyStr("m"), None),
       Units(id, PyStr("m"), DataShape(id, <<int32>>)),
       Bytes(id),
       String(id, None, None),
       String(id, PyInt(1), PyStr("ascii")),
       int32,
       float64,
       Var(id),
       TV(id, "A"),
       TV(id, "B"),
       Ellipsis(id, None),
       Ellipsis(id, TV(id, "A")),
       JSON(id),
       DataShape(id, <<int32>>),
       DataShape(id, <<Fixed(id, PyInt(1)), int32>>),
       DataShape(id, <<TV(id, "A"), TV(id, "B"), int32>>),
       DataShape(id, <<Var(id), Null(id)>>),
       Record(id, << <<"a", int32>>, <<"b", float64>> >>),
       Record(id, << <<"b", float64>>, <<"a", int32>> >>),
       Record(id, << <<"x", TV(id, "A")>>, <<"y", int32>> >>),
       Tuple(id, PyList(<<DataShape(id, <<TV(id, "A"), int32>>),
                          DataShape(id, <<float64>>)>>)),
       Option(id, int32),
       Option(id, Record(id, << <<"x", TV(id, "A")>> >>)),
       Function(id, <<TV(id, "A"), DataShape(id, <<TV(id, "B"), int32>>), int32>>),
       PyInt(1),
       PyStr("s") >>
    \o [k \in 1..(MaxFixed + 1) |-> Fixed(id, PyInt(k - 1))]

NodePool(id) == {NodeSeq(id)[i] : i \in DOMAIN NodeSeq(id)}

\* What DataShape(...) is called with: nodes of both classes, nodes without a
\* class, and a raw integer.
ArgPool ==
    { Fixed(1, PyInt(1)), Var(1), TV(1, "A"), Ellipsis(1, None), int32,
      String(1, None, None), Null(1), Option(1, int32),
      IntegerConstant(1, PyInt(1)), PyInt(1) }

ArgTuples == UNION {[1..n -> ArgPool] : n \in 0..MaxParams}

Leadings == (-2)..MaxLeading

\* What to_numpy is called with: the nodes and DataShapes above, and
\* DataShapes over every kind of dimension a DataShape accepts and measures of
\* further variants.
ToNumpyPool ==
    NodePool(1) \cup DataShapePool(1) \cup
    { DataShape(1, d \o <<m>>) :
        d \in UNION {[1..n -> {Fixed(1, PyInt(1)), TV(1, "A"), Var(1),
                               Ellipsis(1, None)}] : n \in 0..2},
        m \in { Date(1), JSON(1), Option(1, int32), float64,
                Tuple(1, PyList(<<DataShape(1, <<int32>>)>>)),
                CTypeObj("complex[float32]", 8, 4), CTypeObj("char", 1, 1),
                Record(1, << <<"s", String(1, None, None)>>, <<"y", int32>> >>) } }

\* Extents of a native shape: 0..MaxExtent, and a negative one.
ExtentPool == {PyInt(k) : k \in (-1)..MaxExtent}

\* Native shapes of rank 0..MaxRank.
ShapePool == UNION {[1..n -> ExtentPool] : n \in 0..MaxRank}

\* Native scalar descriptors: every dtype numpy knows by name.
ScalarDtypes == {np_dtype(n) : n \in DOMAIN NumpyScalars}

\* Flat records of native scalars.
RecordDtypes ==
    { np_dtype_fields(<< <<"f0", np_dtype("int32")>>, <<"f1", np_dtype("int64")>>,
                         <<"f2", np_dtype("float64")>> >>),
      np_dtype_fields(<< <<"re", np_dtype("complex64")>>, <<"ok", np_dtype("bool")>> >>),
      np_dtype_fields(<< <<"x", np_dtype("uint8")>> >>) }

\* What typeof is called with: one value or more of every kind it tells apart.
TypeofPool ==
    { PyInt(1), PyFloat(1, 2), PyComplex, PyStr("s"), PyTimedelta, PyDatetime,
      None, PyList(<<>>), WithDshape(DataShape(1, <<Fixed(1, PyInt(2)), int32>>)),
      ndarray(<<>>, np_dtype("int32")),
      ndarray(<<PyInt(2)>>, np_dtype("float64")),
      ndarray(<<PyInt(2)>>, np_dtype("datetime64")),
      ndarray(<<PyInt(2)>>, np_dtype_string("U", 5)) }

\* Field names and field types Records are declared with.
FieldNames == {"a", "b", "c"}

FieldTypes ==
    { int32, float64, String(1, None, None),
      DataShape(1, <<Fixed(1, PyInt(2)), int32>>) }

\* Declarations of one or more fields with distinct names, and declarations of
\* two fields under one name (Record.__init__ takes them).
FieldPool ==
    UNION { { f \in [1..n -> FieldNames \X FieldTypes] :
                \A i, j \in 1..n : i # j => f[i][1] # f[j][1] } :
            n \in 1..Cardinality(FieldNames) }
    \cup { f \in [1..2 -> FieldNames \X FieldTypes] : f[1][1] = f[2][1] }

\* The orders in which n fields can be declared.
Orders(n) == {p \in [1..n -> 1..n] : \A i, j \in 1..n : i # j => p[i] # p[j]}

\* What from_numpy is called with: scalars, flat records, strings.
DtypePool ==
    ScalarDtypes \cup RecordDtypes
        \cup {np_dtype_string("S", 5), np_dtype_string("U", 5)}

----------------------------------------------------------------------------
(* Algebra operations: each applies one function of the module to inputs    *)
(* drawn from the pools, once, from the state after import (the functions   *)
(* are pure: what one application returns does not depend on an earlier     *)
(* one).  Objects an operation creates get identity 3.                      *)

\* No operation has been applied yet.
Fresh == call = NoOp

\* DataShape(*args)
NewShape(args) ==
    /\ Fresh
    /\ call' = [op |-> "DataShape", args |-> args]
    /\ ret' = DataShape(3, args)
    /\ UNCHANGED <<pyver, registry, last, pc, targ, calls>>

\* self.sigform()
Sigform(self) ==
    /\ Fresh
    /\ call' = [op |-> "sigform", self |-> self]
    /\ ret' = sigform(3, self)
    /\ UNCHANGED <<pyver, registry, last, pc, targ, calls>>

\* self.subarray(leading)
Subarray(self, leading) ==
    /\ Fresh
    /\ call' = [op |-> "subarray", self |-> self, leading |-> leading]
    /\ ret' = subarray(3, self, leading)
    /\ UNCHANGED <<pyver, registry, last, pc, targ, calls>>

\* free(t)
Free(t) ==
    /\ Fresh
    /\ call' = [op |-> "free", self |-> t]
    /\ ret' = PyList(free(t))
    /\ UNCHANGED <<pyver, registry, last, pc, targ, calls>>

\* type(t)(*t.parameters), and its comparison with t
Reconstruct(t) ==
    /\ Fresh
    /\ call' = [op |-> "reconstruct", self |-> t]
    /\ ret' = LET r == reconstruct(registry, 3, t)
              IN  [kind |-> "reconstructed", obj |-> r,
                   eq |-> IF IsRaise(r) THEN r ELSE Eq(r, t)]
    /\ UNCHANGED <<pyver, registry, last, pc, targ, calls>>

\* x == y, y == x, hash(x), hash(y); x is the i-th node, y the j-th node built with
\* identity yid.
Compare(i, j, yid) ==
    /\ Fresh
    /\ call' = [op |-> "compare", x |-> NodeSeq(1)[i], y |-> NodeSeq(yid)[j],
                i |-> i, j |-> j, yid |-> yid]
    /\ ret' = [kind |-> "compared",
               eq |-> Eq(NodeSeq(1)[i], NodeSeq(yid)[j]),
               eqr |-> Eq(NodeSeq(yid)[j], NodeSeq(1)[i]),
               hx |-> Hash(pyver, NodeSeq(1)[i]),
               hy |-> Hash(pyver, NodeSeq(yid)[j])]
    /\ UNCHANGED <<pyver, registry, last, pc, targ, calls>>

\* to_numpy(t)
ToNumpy(t) ==
    /\ Fresh
    /\ call' = [op |-> "to_numpy", self |-> t]
    /\ ret' = to_numpy(t)
    /\ UNCHANGED <<pyver, registry, last, pc, targ, calls>>

\* from_numpy(shp, dt), and to_numpy of what it returned
FromNumpy(shp, dt) ==
    /\ Fresh
    /\ call' = [op |-> "from_numpy", shape |-> PyTuple(shp), dtype |-> dt]
    /\ ret' = LET r == from_numpy(registry, pyver, 3, shp, dt)
              IN  [kind |-> "converted", obj |-> r,
                   back |-> IF IsRaise(r) THEN r ELSE to_numpy(r)]
    /\ UNCHANGED <<pyver, registry, last, pc, targ, calls>>

\* typeof(obj)
Typeof(obj) ==
    /\ Fresh
    /\ call' = [op |-> "typeof", obj |-> obj]
    /\ ret' = typeof(registry, pyver, 3, obj)
    /\ UNCHANGED <<pyver, registry, last, pc, targ, calls>>

\* t.shape and t.measure
Query(t) ==
    /\ Fresh
    /\ call' = [op |-> "query", self |-> t]
    /\ ret' = [kind |-> "queried", shape |-> PyTuple(shape(t)), measure |-> measure(t)]
    /\ UNCHANGED <<pyver, registry, last, pc, targ, calls>>

\* Record(fields) and Record(the same fields in the order p), compared and
\* rendered
RecordPair(fields, p) ==
    /\ Fresh
    /\ call' = [op |-> "records", fields |-> fields,
                permuted |-> [i \in DOMAIN fields |-> fields[p[i]]]]
    /\ ret' = LET x == Record(1, fields)
                  y == Record(2, [i \in DOMAIN fields |-> fields[p[i]]])
              IN  [kind |-> "records", x |-> x, y |-> y, eq |-> Eq(x, y),
                   strx |-> str(x), stry |-> str(y)]
    /\ UNCHANGED <<pyver, registry, last, pc, targ, calls>>

NextAlgebra ==
    \/ Fresh /\ \E a \in ArgTuples : NewShape(a)
    \/ Fresh /\ \E t \in NodePool(1) \cup DataShapePool(1) : Sigform(t)
    \/ Fresh /\ \E t \in NodePool(1) \cup DataShapePool(1), k \in Leadings : Subarray(t, k)
    \/ Fresh /\ \E t \in NodePool(1) \cup DataShapePool(1) : Free(t)
    \/ Fresh /\ \E t \in {x \in NodePool(1) : isinstance_Mono(x)} : Reconstruct(t)
    \/ Fresh /\ \E i, j \in DOMAIN NodeSeq(1), yid \in {1, 2} : Compare(i, j, yid)
    \/ Fresh /\ \E t \in ToNumpyPool : ToNumpy(t)
    \/ Fresh /\ \E shp \in ShapePool, dt \in DtypePool : FromNumpy(shp, dt)
    \/ Fresh /\ \E obj \in TypeofPool : Typeof(obj)
    \/ Fresh /\ \E f \in FieldPool : \E p \in Orders(Len(f)) : RecordPair(f, p)
    \/ Fresh /\ \E t \in {x \in NodePool(1) : isinstance_Mono(x)} \cup DataShapePool(1) : Query(t)

SpecAlgebra == Init /\ [][NextAlgebra]_vars

----------------------------------------------------------------------------
(* Claims about the registry *)

\* C1: no operation (Type.register, CType(...), DataShape(..., name=n)) ever
\* replaces an existing binding: every name bound before an operation is
\* bound to the same object after it.
C1_BindingsNeverReplaced ==
    last.op # "none" =>
        \A n \in DOMAIN last.before :
            n \in DOMAIN registry /\ registry[n] = last.before[n]

\* C2: a Type.register call or a CType construction against a bound name
\* raises the collision error and leaves the registry as it was; against an
\* unbound name it binds exactly that name to the given object (for CType, the
\* object under construction) and changes no other binding.
C2_RegisterCollidesOrBinds ==
    last.op \in {"register", "CType"} =>
        IF last.name \in DOMAIN last.before
        THEN /\ last.result = Raise("TypeError")
             /\ registry = last.before
        ELSE /\ ~IsRaise(last.result)
             /\ DOMAIN registry = DOMAIN last.before \cup {last.name}
             /\ registry[last.name] =
                    (IF last.op = "register" THEN last.arg ELSE last.result)
             /\ \A n \in DOMAIN last.before : registry[n] = last.before[n]

\* C2 witness: a CType was constructed with a name that was already bound,
\* and the construction raised.
C2_Witness ==
    /\ last.op = "CType"
    /\ last.name \in DOMAIN last.before
    /\ IsRaise(last.result)

\* C3: when two threads run Type.register for the same name, they never both
\* return normally: one of them raises the collision error.
C3_OneRegistrationWins ==
    \A t1, t2 \in Threads :
        (t1 # t2 /\ pc[t1] = "returned" /\ pc[t2] = "returned")
            => targ[t1].name # targ[t2].name

----------------------------------------------------------------------------
(* Claims about DataShape construction *)

\* A node classified MEASURE: its variant sets cls = MEASURE, or it is a
\* TypeVar, whose class is contextual.
C4_IsMeasure(x) ==
    \/ x.kind = "TypeVar"
    \/ x.kind \in DOMAIN ClsAttr /\ ClsAttr[x.kind] = PyInt(MEASURE)

\* A node classified DIMENSION: its variant sets cls = DIMENSION, or it is a
\* TypeVar.
C4_IsDimension(x) ==
    \/ x.kind = "TypeVar"
    \/ x.kind \in DOMAIN ClsAttr /\ ClsAttr[x.kind] = PyInt(DIMENSION)

\* C4: DataShape construction fails whenever the last parameter is not a
\* MEASURE-classified node or some parameter before the last is not a
\* DIMENSION-classified node.
C4_MisplacedParameterFails ==
    ( /\ call.op = "DataShape"
      /\ Len(call.args) > 0
      /\ \/ ~C4_IsMeasure(call.args[Len(call.args)])
         \/ \E i \in 1..(Len(call.args) - 1) : ~C4_IsDimension(call.args[i]) )
    => IsRaise(ret)

----------------------------------------------------------------------------
(* Claims about the algebra utilities *)

\* C6: sigform() on a DataShape with n >= 1 dimensions succeeds and returns a
\* DataShape with n dimensions, the k-th being the TypeVar named 'i' followed
\* by k (i0, i1, ...), and with the measure of the original.
C6_SigformNamesDimensions ==
    ( /\ call.op = "sigform"
      /\ call.self.kind = "DataShape"
      /\ Len(call.self.parameters) >= 2 )
    => /\ ret.kind = "DataShape"
       /\ Len(ret.parameters) = Len(call.self.parameters)
       /\ \A k \in 1..(Len(ret.parameters) - 1) :
            /\ ret.parameters[k].kind = "TypeVar"
            /\ ret.parameters[k].symbol = PySym(<<"i">> \o str_int(k - 1))
       /\ measure(ret) = measure(call.self)

\* C7: two Mono nodes constructed independently from equal parameters compare
\* equal, and nodes that compare equal have equal hashes.
C7_EqualityAndHashAreStructural ==
    ( /\ call.op = "compare"
      /\ isinstance_Mono(call.x)
      /\ isinstance_Mono(call.y) )
    => /\ call.i = call.j => ret.eq = PyBool(TRUE)
       /\ ret.eq = PyBool(TRUE) => (~IsRaise(ret.hx) /\ ret.hx = ret.hy)

\* C8: for every constructed Mono node t, type(t)(*t.parameters) succeeds and
\* yields a node equal to t.
C8_ReconstructableFromParameters ==
    call.op = "reconstruct" =>
        (~IsRaise(ret.obj) /\ ret.eq = PyBool(TRUE))

\* The component types of a composite node.
C9_Components(t) ==
    CASE t.kind \in {"DataShape", "Function"} -> t.parameters
      [] t.kind = "Option" -> <<t.ty>>
      [] t.kind = "Ellipsis" ->
            IF t.parameters[1] = None THEN <<>> ELSE t.parameters
      [] t.kind = "Record" -> t.ftypes
      [] t.kind = "Tuple" -> t.dshapes.items
      [] OTHER -> <<>>

RECURSIVE C9_TypeVars(_), C9_TypeVarsOfAll(_)

C9_TypeVarsOfAll(ts) ==
    IF ts = <<>> THEN <<>>
    ELSE C9_TypeVars(Head(ts)) \o C9_TypeVarsOfAll(Tail(ts))

\* The TypeVar nodes occurring anywhere in t, depth-first, duplicates kept.
C9_TypeVars(t) ==
    IF t.kind = "TypeVar" THEN <<t>> ELSE C9_TypeVarsOfAll(C9_Components(t))

\* C9: free(t) returns exactly the TypeVar nodes occurring anywhere in t, in
\* depth-first order with duplicates retained, every composite node
\* (DataShape, Record, Tuple, Function, Option, Ellipsis) contributing the
\* free variables of all of its component types.
C9_FreeReturnsAllTypeVars ==
    call.op = "free" => ret = PyList(C9_TypeVars(call.self))

\* C10: for a DataShape with n >= 1 dimensions and measure m, subarray(k)
\* raises the out-of-range error when k > n, returns m itself when k = n, and
\* for 0 <= k < n returns a DataShape whose dimensions are the last n - k
\* dimensions of the original in order and whose measure is m.
C10_SubarrayDropsLeading ==
    ( /\ call.op = "subarray"
      /\ call.self.kind = "DataShape"
      /\ Len(call.self.parameters) >= 2
      /\ call.leading >= 0 )
    => LET n == Len(call.self.parameters) - 1
           k == call.leading
       IN  IF k > n THEN ret = Raise("IndexError")
           ELSE IF k = n THEN ret = call.self.parameters[n + 1]
           ELSE /\ ret.kind = "DataShape"
                /\ shape(ret) = SubSeq(call.self.parameters, k + 1, n)
                /\ measure(ret) = call.self.parameters[n + 1]

\* C10 witness: subarray(1) of a DataShape with three dimensions returned a
\* DataShape (with the two remaining dimensions).
C10_Witness ==
    /\ call.op = "subarray"
    /\ call.self.kind = "DataShape"
    /\ Len(call.self.parameters) = 4
    /\ call.leading = 1
    /\ ret.kind = "DataShape"
    /\ Len(ret.parameters) = 3

\* A subarray call on a DataShape with three dimensions followed by a measure.
C11_ThreeDims ==
    /\ call.op = "subarray"
    /\ call.self.kind = "DataShape"
    /\ Len(call.self.parameters) = 4

\* C11 as stated: on a DataShape with three dimensions followed by a measure,
\* subarray(2) returns the bare measure, subarray(k) raises the out-of-range
\* error for every k >= 3, and subarray(0) returns a DataShape equal by value
\* to the original.
C11_TwoOfThreeGivesMeasure ==
    C11_ThreeDims =>
        /\ call.leading = 2 => ret = measure(call.self)
        /\ call.leading >= 3 => ret = Raise("IndexError")
        /\ call.leading = 0 =>
              (ret.kind = "DataShape" /\ Eq(ret, call.self) = PyBool(TRUE))

\* C11 as amended: on a DataShape with three dimensions followed by a measure,
\* subarray(3) returns the bare measure, subarray(2) returns the DataShape of
\* the third dimension and the measure, subarray(k) raises the out-of-range
\* error for every k >= 4, and subarray(0) returns a DataShape equal by value
\* to the original.
C11_ThreeOfThreeGivesMeasure ==
    C11_ThreeDims =>
        /\ call.leading = 3 => ret = measure(call.self)
        /\ call.leading = 2 =>
              /\ ret.kind = "DataShape"
              /\ ret.parameters = SubSeq(call.self.parameters, 3, 4)
        /\ call.leading >= 4 => ret = Raise("IndexError")
        /\ call.leading = 0 =>
              (ret.kind = "DataShape" /\ Eq(ret, call.self) = PyBool(TRUE))

\* C11 witness: subarray(3) of a DataShape with three dimensions returned its
\* measure, which is not a DataShape.
C11_Witness ==
    /\ C11_ThreeDims
    /\ call.leading = 3
    /\ ret = measure(call.self)
    /\ ret.kind # "DataShape"

----------------------------------------------------------------------------
(* Claims about the names bound at import *)

\* The alias names, bound by Type.register to a CType that has another name.
C12_Aliases == {"complex64", "complex128", "intptr", "uintptr", "float", "double"}

\* A lookup of a native scalar name whose binding is still the one made at
\* import.
C12_NativeLookup ==
    /\ last.op = "lookup_type"
    /\ last.name \in NativeNames
    /\ last.before[last.name] = ModuleRegistry(pyver)[last.name]

\* C12 as stated: for every native scalar name n bound at import, the alias
\* names included, lookup(n) returns a node whose rendered string equals n.
C12_LookupRendersAsName ==
    C12_NativeLookup =>
        (~IsRaise(last.result) /\ str(last.result) = last.name)

\* C12 as amended: for every name n a CType registered itself under at import,
\* lookup(n) returns a node whose rendered string equals n; for an alias name
\* lookup returns the aliased CType, whose rendered string is its own name
\* (complex[float32], complex[float64], the pointer-sized int64/uint64 or
\* int32/uint32, float32, float64), never the alias.
C12_LookupRendersOwnName ==
    C12_NativeLookup =>
        /\ ~IsRaise(last.result)
        /\ last.result.kind = "CType"
        /\ last.name \notin C12_Aliases => str(last.result) = last.name
        /\ last.name \in C12_Aliases =>
              str(last.result) =
                 CASE last.name = "complex64" -> "complex[float32]"
                   [] last.name = "complex128" -> "complex[float64]"
                   [] last.name = "intptr" ->
                         IF sizeof_c_void_p = 4 THEN "int32" ELSE "int64"
                   [] last.name = "uintptr" ->
                         IF sizeof_c_void_p = 4 THEN "uint32" ELSE "uint64"
                   [] last.name = "float" -> "float32"
                   [] last.name = "double" -> "float64"

\* C12 witness: the alias complex64 was looked up and the node returned
\* renders as complex[float32].
C12_Witness ==
    /\ C12_NativeLookup
    /\ last.name = "complex64"
    /\ str(last.result) = "complex[float32]"

----------------------------------------------------------------------------
(* Claims about native-array interop *)

\* C13: to_numpy(t) converts each dimension of t in order: an IntegerConstant
\* or Fixed dimension becomes its plain integer extent, a TypeVar dimension
\* becomes -1, and any other dimension makes the call raise the incompatible
\* error; a measure that is neither a CType nor a Record makes the call raise
\* the incompatible error; a call that raises returns no (shape, descriptor)
\* pair.
C13_ToNumpyConvertsOrFails ==
    call.op = "to_numpy" =>
        LET dims == shape(call.self)
            msr == measure(call.self)
            okDim(d) == d.kind \in {"IntegerConstant", "Fixed", "TypeVar"}
            okDims == \A i \in DOMAIN dims : okDim(dims[i])
            okMsr == msr.kind \in {"CType", "Record"}
        IN  /\ ~okDims => ret = Raise("NotNumpyCompatible")
            /\ (okDims /\ ~okMsr) => ret = Raise("NotNumpyCompatible")
            /\ ~IsRaise(ret) =>
                  /\ ret.kind = "tuple"
                  /\ Len(ret.items) = 2
                  /\ ret.items[1].kind = "tuple"
                  /\ Len(ret.items[1].items) = Len(dims)
                  /\ \A i \in DOMAIN dims :
                        ret.items[1].items[i] =
                            (IF dims[i].kind = "TypeVar" THEN PyInt(-1)
                             ELSE PyInt(dims[i].val.int))
                  /\ ret.items[2].kind = "dtype"

\* C13 witness: to_numpy of a DataShape with a Fixed and a TypeVar dimension
\* and a CType measure returned the shape (1, -1) and a descriptor.
C13_Witness ==
    /\ call.op = "to_numpy"
    /\ call.self.kind = "DataShape"
    /\ Len(call.self.parameters) = 3
    /\ call.self.parameters[1].kind = "Fixed"
    /\ call.self.parameters[2].kind = "TypeVar"
    /\ ret.kind = "tuple"
    /\ ret.items[1] = PyTuple(<<PyInt(1), PyInt(-1)>>)
    /\ ret.items[2] = np_dtype("int32")

\* The IntegerConstant case of C13 cannot arise: DataShape construction with an
\* IntegerConstant before the last position raises (its cls is None).
C13_NoIntegerConstantDimension ==
    ( /\ call.op = "DataShape"
      /\ \E i \in 1..(Len(call.args) - 1) : call.args[i].kind = "IntegerConstant" )
    => IsRaise(ret)

\* A from_numpy call with a shape of non-negative extents and a descriptor that
\* is a scalar bound in the registry under its name, or a flat record of such
\* scalars.
C14_NativeInput ==
    /\ call.op = "from_numpy"
    /\ \A i \in DOMAIN call.shape.items : call.shape.items[i].int >= 0
    /\ LET scalar(d) == /\ d.fields = <<>>
                        /\ d.dkind \notin {"S", "U"}
                        /\ InRegistry(registry, d.name)
       IN  \/ scalar(call.dtype)
           \/ /\ call.dtype.fields # <<>>
              /\ \A i \in DOMAIN call.dtype.fields : scalar(call.dtype.fields[i][2])

\* C14: for every shape tuple of non-negative extents (the empty shape
\* included) and every native descriptor d that is a registered scalar kind or
\* a flat record of such scalars, to_numpy(from_numpy(shape, d)) equals
\* (shape, d).
C14_RoundTripIsExact ==
    C14_NativeInput =>
        /\ ~IsRaise(ret.obj)
        /\ ret.back = PyTuple(<<call.shape, call.dtype>>)

\* C14 witness: shape (5, 5) with the 32-bit integer descriptor was converted
\* to the DataShape 5 * 5 * int32 and back to ((5, 5), int32).
C14_Witness ==
    /\ call.op = "from_numpy"
    /\ call.shape = PyTuple(<<PyInt(5), PyInt(5)>>)
    /\ call.dtype = np_dtype("int32")
    /\ ret.obj.kind = "DataShape"
    /\ str(ret.obj) = "5 * 5 * int32"
    /\ ret.back = PyTuple(<<PyTuple(<<PyInt(5), PyInt(5)>>), np_dtype("int32")>>)

\* C15: from_numpy with an empty shape and a structured descriptor returns a
\* bare Record whose names list is the descriptor's field names in declaration
\* order and whose types list equals, element by element under ==, the list of
\* the registry scalars of the fields' native kinds.
C15_RecordOfRegistryScalars ==
    ( /\ call.op = "from_numpy"
      /\ call.shape.items = <<>>
      /\ call.dtype.fields # <<>> )
    => /\ ret.obj.kind = "Record"
       /\ ret.obj.fnames = [i \in DOMAIN call.dtype.fields |-> call.dtype.fields[i][1]]
       /\ SeqEq(ret.obj.ftypes,
                [i \in DOMAIN call.dtype.fields |->
                    Type_lookup_type(registry, call.dtype.fields[i][2].name)],
                1) = PyBool(TRUE)

\* C16: typeof(value) never fails: a value exposing its own dshape returns it;
\* a native array returns what from_numpy makes of its shape and dtype; an
\* integer, float, complex number, string, timedelta or datetime value returns
\* a DataShape of a built-in measure; every other value returns the DataShape
\* of the opaque object measure.
C16_TypeofIsTotal ==
    call.op = "typeof" =>
        /\ ~IsRaise(ret)
        /\ "dshape" \in DOMAIN call.obj => ret = call.obj.dshape
        /\ call.obj.kind \in {"int", "float", "complex", "str", "timedelta", "datetime"}
              => (ret.kind = "DataShape" /\ Len(ret.parameters) = 1)
        /\ call.obj.kind \in {"NoneType", "list"}
              => ret = DataShape(3, <<CTypeObj("object", 8, 8)>>)

----------------------------------------------------------------------------
(* Claims about shape, measure, rendering and equality *)

\* C17: for every sequence of one or more DIMENSION-classified nodes followed
\* by a MEASURE-classified node, DataShape(*dimensions, measure) succeeds, its
\* shape is the given dimension sequence in order and its measure is the given
\* measure; for every unit measure node, shape is empty and measure is the
\* node itself.
C17_ShapeAndMeasureAreTheParts ==
    /\ ( /\ call.op = "DataShape"
         /\ Len(call.args) >= 2
         /\ C4_IsMeasure(call.args[Len(call.args)])
         /\ \A i \in 1..(Len(call.args) - 1) : C4_IsDimension(call.args[i]) )
       => /\ ret.kind = "DataShape"
          /\ shape(ret) = SubSeq(call.args, 1, Len(call.args) - 1)
          /\ measure(ret) = call.args[Len(call.args)]
    /\ ( /\ call.op = "query"
         /\ call.self.kind = "DataShape"
         /\ Len(call.self.parameters) >= 2 )
       => /\ ret.shape.items = SubSeq(call.self.parameters, 1, Len(call.self.parameters) - 1)
          /\ ret.measure = call.self.parameters[Len(call.self.parameters)]
    /\ ( /\ call.op = "query"
         /\ isinstance_Unit(call.self)
         /\ C4_IsMeasure(call.self) )
       => /\ ret.shape = PyTuple(<<>>)
          /\ ret.measure = call.self

\* C17 witness: shape and measure were read from a DataShape with three
\* dimensions and gave three dimensions and the measure.
C17_Witness ==
    /\ call.op = "query"
    /\ call.self.kind = "DataShape"
    /\ Len(call.self.parameters) = 4
    /\ Len(ret.shape.items) = 3
    /\ ret.measure = call.self.parameters[4]

\* The rendering '{ name : type, name : type }' of a declaration.
C18_Rendered(fields) ==
    "{ " \o join(", ", [i \in DOMAIN fields |->
                          fields[i][1] \o " : " \o str(fields[i][2])]) \o " }"

\* The names and types lists of record r follow the declaration fields.
C18_ListsFollow(r, fields) ==
    /\ r.fnames = [i \in DOMAIN fields |-> fields[i][1]]
    /\ Len(r.ftypes) = Len(fields)
    /\ \A i \in DOMAIN fields :
          IF fields[i][2].kind = "DataShape" THEN r.ftypes[i] = fields[i][2]
          ELSE r.ftypes[i].parameters = <<fields[i][2]>>

\* C18: two Records built from the same (field name, field type) pairs in
\* different declaration orders compare equal, the pairs being a mapping from
\* names to types (no name declared twice), while each Record's rendered
\* string and its names and types lists list the fields in that Record's own
\* declaration order.
C18_RecordsEqualAcrossOrders ==
    call.op = "records" =>
        /\ (\A i, j \in DOMAIN call.fields :
               i # j => call.fields[i][1] # call.fields[j][1])
              => ret.eq = PyBool(TRUE)
        /\ ret.strx = C18_Rendered(call.fields)
        /\ ret.stry = C18_Rendered(call.permuted)
        /\ C18_ListsFollow(ret.x, call.fields)
        /\ C18_ListsFollow(ret.y, call.permuted)

\* C18 witness: two Records of the same two fields in opposite orders compared
\* equal and rendered differently.
C18_Witness ==
    /\ call.op = "records"
    /\ Len(call.fields) = 2
    /\ call.fields # call.permuted
    /\ ret.eq = PyBool(TRUE)
    /\ ret.strx = "{ a : int32, b : float64 }"
    /\ ret.stry = "{ b : float64, a : int32 }"

\* C19: for every pair x, y of Mono nodes, raw integers and raw strings of
\* which at least one is a Mono node, neither x == y nor y == x raises, and the
\* two give the same truth value.
C19_EqualityIsTotalAndSymmetric ==
    ( /\ call.op = "compare"
      /\ isinstance_Mono(call.x) \/ isinstance_Mono(call.y) )
    => /\ ~IsRaise(ret.eq)
       /\ ~IsRaise(ret.eqr)
       /\ ret.eq = ret.eqr

====
